---- MODULE Spec2Model ----
(***************************************************************************)
(* Model of build.py, the build dispatcher of the anapo repository.        *)
(*                                                                         *)
(* A run of the script is a behaviour: the command line is fixed in Init,  *)
(* parse_args (line 35) turns it into the namespace args, the dispatch     *)
(* (lines 37-50) calls configure / build / repl / build_nix, and each of   *)
(* those prints one status line and then blocks in subprocess.check_call   *)
(* until the child exits.  The child's return code is the environment's    *)
(* choice.  trace records, in program order, every status line printed,    *)
(* every argument list handed to check_call and every child exit.          *)
(*                                                                         *)
(* A Python string built by concatenation is modelled as the sequence of   *)
(* the fragments concatenated (the literal "" contributes no fragment), an *)
(* argument list as the sequence of such strings.                          *)
(***************************************************************************)
EXTENDS Integers, Sequences, FiniteSets, TLC

VARIABLES argv, args, pc, frame, gi, pj, trace, status

vars == <<argv, args, pc, frame, gi, pj, trace, status>>

\* Longest command line explored, and largest return code a child may give.
MaxArgs == 3
MaxExitCode == 2

(***************************************************************************)
(* The command line.                                                       *)
(***************************************************************************)

\* Option strings the parser declares (lines 30, 32, 33).
DeclaredOptions == {"--ghc", "--configure", "--repl"}

\* Strings argparse classifies as options (they start with '-'); "--bogus"
\* stands for any option string the parser does not declare.
OptionStrings == DeclaredOptions \cup {"--bogus"}

\* Positional words tried: a known project, an unknown one, the empty string.
PositionalWords == {"anapo", "other", ""}

Words == OptionStrings \cup PositionalWords

CommandLines == UNION {[1..n -> Words] : n \in 0..MaxArgs}

(***************************************************************************)
(* argparse (lines 29-35).                                                 *)
(***************************************************************************)

\* The namespace before parsing: store_true flags default to False, the
\* optional positional to None (the empty tuple here; a given project p is
\* the one-element tuple <<p>>).
EmptyNamespace ==
  [outcome |-> "unparsed", project |-> <<>>, seen |-> FALSE, ghc |-> FALSE,
   configure |-> FALSE, repl |-> FALSE, extras |-> <<>>]

NoExclusion(ns, opt) == FALSE

\* The mutually exclusive group of --configure and --repl.
Conflicts(ns, opt) ==
  \/ opt = "--repl" /\ ns.configure
  \/ opt = "--configure" /\ ns.repl

\* One pass over the argument strings, left to right: a declared option sets
\* its flag, unless the group forbids it (the error ends the pass); the first
\* positional fills PROJECT; everything else is collected as unrecognized.
RECURSIVE parse_known_args(_, _, _)
parse_known_args(av, i, ns) ==
  IF i > Len(av) THEN ns
  ELSE LET a == av[i] IN
    IF a \in DeclaredOptions
    THEN IF Conflicts(ns, a)
         THEN [ns EXCEPT !.outcome = "error"]
         ELSE parse_known_args(av, i + 1,
                [ns EXCEPT !.ghc = @ \/ a = "--ghc",
                           !.configure = @ \/ a = "--configure",
                           !.repl = @ \/ a = "--repl"])
    ELSE IF a \in OptionStrings
    THEN parse_known_args(av, i + 1, [ns EXCEPT !.extras = Append(@, a)])
    ELSE IF ~ns.seen
    THEN parse_known_args(av, i + 1, [ns EXCEPT !.project = <<a>>, !.seen = TRUE])
    ELSE parse_known_args(av, i + 1, [ns EXCEPT !.extras = Append(@, a)])

\* parse_args: unrecognized arguments are an error, reported after the pass.
parse_args(av) ==
  LET ns == parse_known_args(av, 1, EmptyNamespace) IN
    IF ns.outcome = "error" \/ ns.extras # <<>>
    THEN [ns EXCEPT !.outcome = "error"]
    ELSE [ns EXCEPT !.outcome = "ok"]

(***************************************************************************)
(* The functions of the script (lines 5-27).                               *)
(***************************************************************************)

ToolchainTextSwapped(ghcjs) == IF ghcjs THEN <<"using GHC.">> ELSE <<"using GHCjs.">>

\* ("using GHCjs." if ghcjs else "using GHC.")
ToolchainText(ghcjs) == IF ghcjs THEN <<"using GHCjs.">> ELSE <<"using GHC.">>

\* The status line each function prints first.
StatusLine(fn, project, ghcjs) ==
  CASE fn = "configure" -> <<"### Configuring project ", project, ", ">> \o ToolchainText(ghcjs)
    [] fn = "build"     -> <<"### Configuring project ", project, ", ">> \o ToolchainText(ghcjs)
    [] fn = "repl"      -> <<"### REPLing project ", project, ", ">> \o ToolchainText(ghcjs)
    [] fn = "build_nix" -> <<"### Building project ", project, " (nix), ">> \o ToolchainText(ghcjs)

\* "true" if ghcjs else "false"
GhcjsArg(ghcjs) == IF ghcjs THEN <<"true">> ELSE <<"false">>

ConfigureCmdAlwaysGhcjs(ghcjs) == <<"configure", " --ghcjs">>

\* The Setup.hs sub-command each function passes to run.
ConfigureCmd(ghcjs) == <<"configure">> \o (IF ghcjs THEN <<" --ghcjs">> ELSE <<>>)
BuildCmd == <<"build">>
ReplCmd == <<"repl --ghc-options='-fobject-code -O0'">>

\* The argument list run hands to check_call.
RunArgv(project, ghcjs, cmd) ==
  << <<"nix-shell">>, <<"build.nix">>, <<"-A">>, <<project, ".env">>,
     <<"--arg">>, <<"ghcjs">>, GhcjsArg(ghcjs),
     <<"--run">>, <<"cd ", project, " && runhaskell Setup.hs ">> \o cmd >>

\* The argument list build_nix hands to check_call.
NixBuildArgv(project, ghcjs) ==
  << <<"nix-build">>, <<"build.nix">>, <<"-A">>, <<project>>,
     <<"--arg">>, <<"ghcjs">>, GhcjsArg(ghcjs) >>

\* The argument list of the one check_call a function makes.
CommandLine(fn, project, ghcjs) ==
  CASE fn = "configure" -> RunArgv(project, ghcjs, ConfigureCmd(ghcjs))
    [] fn = "build"     -> RunArgv(project, ghcjs, BuildCmd)
    [] fn = "repl"      -> RunArgv(project, ghcjs, ReplCmd)
    [] fn = "build_nix" -> NixBuildArgv(project, ghcjs)

CallNeverRaises(rc) == FALSE

\* subprocess.check_call raises CalledProcessError on a non-zero return code.
CheckCallRaises(rc) == rc # 0

ExitStatusAlwaysZero(how) == 0

\* Exit status of the interpreter: parser.error() exits 2, an exception that
\* reaches the top level exits 1, running off the last line exits 0.
ExitStatus(how) ==
  CASE how = "usage" -> 2
    [] how = "uncaught" -> 1
    [] how = "end" -> 0

(***************************************************************************)
(* The dispatch (lines 37-50).                                             *)
(***************************************************************************)

\* Python truth value of args.project: None and "" are false.
Truthy(p) == p # <<>> /\ p[1] # ""

\* not args.ghc
SelectedToolchain(ns) == ~ns.ghc

\* The literal False of lines 41 and 42.
ReplToolchain(ns) == FALSE

GhcjsOrderNativeFirst == <<FALSE, TRUE>>

\* for ghcjs in [True, False]
GhcjsOrder == <<TRUE, FALSE>>

projects == <<"anapo", "anapo-test-app", "js-framework-benchmark">>

NoFrame == [fn |-> "", project |-> "", ghcjs |-> FALSE, ret |-> ""]

\* Entering fn(project, ghcjs); ret is the statement that follows the call.
Call(fn, project, ghcjs, ret) ==
  /\ frame' = [fn |-> fn, project |-> project, ghcjs |-> ghcjs, ret |-> ret]
  /\ pc' = "print"

(***************************************************************************)
(* Initial states and steps.                                               *)
(***************************************************************************)

Init ==
  /\ argv \in CommandLines
  /\ args = EmptyNamespace
  /\ pc = "L35"
  /\ frame = NoFrame
  /\ gi = 1
  /\ pj = 1
  /\ trace = <<>>
  /\ status = -1

\* Line 35, arguments rejected: usage message, exit.
ParseError ==
  /\ pc = "L35"
  /\ parse_args(argv).outcome = "error"
  /\ args' = parse_args(argv)
  /\ pc' = "exited"
  /\ status' = ExitStatus("usage")
  /\ UNCHANGED <<argv, frame, gi, pj, trace>>

\* Line 35, arguments accepted.
ParseOk ==
  /\ pc = "L35"
  /\ parse_args(argv).outcome = "ok"
  /\ args' = parse_args(argv)
  /\ pc' = "L37"
  /\ UNCHANGED <<argv, frame, gi, pj, trace, status>>

\* Lines 37-39.
DispatchConfigure ==
  /\ pc = "L37"
  /\ Truthy(args.project)
  /\ args.configure
  /\ Call("configure", args.project[1], SelectedToolchain(args), "end")
  /\ UNCHANGED <<argv, args, gi, pj, trace, status>>

\* Lines 37, 40, 41.
DispatchRepl ==
  /\ pc = "L37"
  /\ Truthy(args.project)
  /\ ~args.configure
  /\ args.repl
  /\ Call("configure", args.project[1], ReplToolchain(args), "L42")
  /\ UNCHANGED <<argv, args, gi, pj, trace, status>>

\* Line 42.
ReplAfterConfigure ==
  /\ pc = "L42"
  /\ Call("repl", args.project[1], ReplToolchain(args), "end")
  /\ UNCHANGED <<argv, args, gi, pj, trace, status>>

\* Lines 37, 43, 44.
DispatchDefault ==
  /\ pc = "L37"
  /\ Truthy(args.project)
  /\ ~args.configure
  /\ ~args.repl
  /\ Call("configure", args.project[1], SelectedToolchain(args), "L45")
  /\ UNCHANGED <<argv, args, gi, pj, trace, status>>

\* Line 45.
BuildAfterConfigure ==
  /\ pc = "L45"
  /\ Call("build", args.project[1], SelectedToolchain(args), "end")
  /\ UNCHANGED <<argv, args, gi, pj, trace, status>>

\* Lines 37, 46: the else branch.
DispatchAll ==
  /\ pc = "L37"
  /\ ~Truthy(args.project)
  /\ pc' = "L47"
  /\ gi' = 1
  /\ pj' = 1
  /\ UNCHANGED <<argv, args, frame, trace, status>>

\* Lines 47-50: the next iteration of the nested loops.
LoopNext ==
  /\ pc = "L47"
  /\ gi <= Len(GhcjsOrder)
  /\ Call("build_nix", projects[pj], GhcjsOrder[gi], "L47")
  /\ IF pj = Len(projects)
     THEN gi' = gi + 1 /\ pj' = 1
     ELSE gi' = gi /\ pj' = pj + 1
  /\ UNCHANGED <<argv, args, trace, status>>

\* Line 47: both loops exhausted.
LoopDone ==
  /\ pc = "L47"
  /\ gi > Len(GhcjsOrder)
  /\ pc' = "end"
  /\ UNCHANGED <<argv, args, frame, gi, pj, trace, status>>

\* Lines 12, 16, 20, 24: the function's print.
PrintStatus ==
  /\ pc = "print"
  /\ trace' = Append(trace, [kind |-> "print",
                             line |-> StatusLine(frame.fn, frame.project, frame.ghcjs)])
  /\ pc' = "call"
  /\ UNCHANGED <<argv, args, frame, gi, pj, status>>

\* Lines 6, 25: check_call starts the child and blocks.
CheckCall ==
  /\ pc = "call"
  /\ trace' = Append(trace, [kind |-> "exec",
                             argv |-> CommandLine(frame.fn, frame.project, frame.ghcjs)])
  /\ pc' = "wait"
  /\ UNCHANGED <<argv, args, frame, gi, pj, status>>

\* The child exits with rc; check_call returns or raises, and nothing in the
\* script catches the exception.
ChildExit ==
  /\ pc = "wait"
  /\ \E rc \in 0..MaxExitCode :
       /\ trace' = Append(trace, [kind |-> "exit", rc |-> rc])
       /\ IF CheckCallRaises(rc)
          THEN /\ pc' = "exited"
               /\ status' = ExitStatus("uncaught")
               /\ frame' = NoFrame
          ELSE /\ pc' = frame.ret
               /\ status' = status
               /\ frame' = NoFrame
  /\ UNCHANGED <<argv, args, gi, pj>>

\* The script runs off its last line.
ScriptEnd ==
  /\ pc = "end"
  /\ pc' = "exited"
  /\ status' = ExitStatus("end")
  /\ UNCHANGED <<argv, args, frame, gi, pj, trace>>

Next ==
  \/ ParseError
  \/ ParseOk
  \/ DispatchConfigure
  \/ DispatchRepl
  \/ ReplAfterConfigure
  \/ DispatchDefault
  \/ BuildAfterConfigure
  \/ DispatchAll
  \/ LoopNext
  \/ LoopDone
  \/ PrintStatus
  \/ CheckCall
  \/ ChildExit
  \/ ScriptEnd

Spec == Init /\ [][Next]_vars

(***************************************************************************)
(* Observers: what a run was asked to do (read off the command line) and   *)
(* what it did (read off the trace).                                       *)
(***************************************************************************)

Given(opt) == \E i \in 1..Len(argv) : argv[i] = opt

IsPositional(a) == a \notin OptionStrings

Positionals == SelectSeq(argv, IsPositional)

\* A command line argparse has no reason to reject.
WellFormed ==
  /\ Len(Positionals) <= 1
  /\ ~Given("--bogus")
  /\ ~(Given("--configure") /\ Given("--repl"))

\* A well-formed command line that carries the PROJECT argument.
ProjectGiven == WellFormed /\ Len(Positionals) = 1

\* A well-formed command line whose PROJECT argument is not the empty string.
ProjectNamed == ProjectGiven /\ Positionals[1] # ""

\* A well-formed command line that carries no PROJECT argument.
ProjectAbsent == WellFormed /\ Len(Positionals) = 0

Finished == pc = "exited"

IsExec(e) == e.kind = "exec"

IsExit(e) == e.kind = "exit"

IsPrint(e) == e.kind = "print"

Execs == SelectSeq(trace, IsExec)

Exits == SelectSeq(trace, IsExit)

AllSucceeded == \A i \in 1..Len(Exits) : Exits[i].rc = 0

\* Reading an argument list back: the program, the project of the target
\* attribute, the environment's toolchain argument, the Setup.hs sub-command.
Program(e) == e.argv[1][1]

InvProject(e) == e.argv[4][1]

InvGhcjs(e) == e.argv[7] = <<"true">>

InnerCommand(e) == e.argv[9]

InvAction(e) ==
  IF Program(e) = "nix-build" THEN "build_nix"
  ELSE IF Program(e) # "nix-shell" \/ Len(e.argv) # 9 \/ e.argv[8] # <<"--run">>
       THEN "unknown"
  ELSE CASE InnerCommand(e)[4] = "configure" -> "configure"
         [] InnerCommand(e)[4] = "build" -> "build"
         [] InnerCommand(e)[4] = "repl --ghc-options='-fobject-code -O0'" -> "repl"
         [] OTHER -> "unknown"

Inv(action, project, ghcjs) ==
  [action |-> action, project |-> project, ghcjs |-> ghcjs]

\* The external invocations made so far, in order.
Invocations ==
  [i \in 1..Len(Execs) |->
     Inv(InvAction(Execs[i]), InvProject(Execs[i]), InvGhcjs(Execs[i]))]

IsPrefix(s, t) == Len(s) <= Len(t) /\ \A i \in 1..Len(s) : s[i] = t[i]

\* A run does a prefix of `expected`, and all of it when every child succeeds.
Performs(expected) ==
  /\ IsPrefix(Invocations, expected)
  /\ Finished /\ AllSucceeded => Invocations = expected

\* Toolchain the command line selects: GHCjs unless --ghc.
Alternate == ~Given("--ghc")

(***************************************************************************)
(* Claims.                                                                 *)
(***************************************************************************)

\* C1: a run with a project given and neither --configure nor --repl invokes
\* exactly configure then build, both for that project and both with GHCjs
\* when --ghc is absent, GHC when it is present (a prefix of it until the run
\* is over or when a child fails).
C1_DefaultConfigureThenBuild ==
  ProjectGiven /\ ~Given("--configure") /\ ~Given("--repl")
    => Performs(<< Inv("configure", Positionals[1], Alternate),
                   Inv("build", Positionals[1], Alternate) >>)

\* The same statement for a PROJECT the script's test holds true (any
\* non-empty string).
DefaultConfigureThenBuild_Named ==
  ProjectNamed /\ ~Given("--configure") /\ ~Given("--repl")
    => Performs(<< Inv("configure", Positionals[1], Alternate),
                   Inv("build", Positionals[1], Alternate) >>)

\* C2: with no project argument, whatever the flags, a fully successful run
\* makes exactly the six nix-build invocations, GHCjs first, projects in the
\* fixed order, and never runs nix-shell.
C2_BuildAllSixInOrder ==
  ProjectAbsent
    => Performs(<< Inv("build_nix", "anapo", TRUE),
                   Inv("build_nix", "anapo-test-app", TRUE),
                   Inv("build_nix", "js-framework-benchmark", TRUE),
                   Inv("build_nix", "anapo", FALSE),
                   Inv("build_nix", "anapo-test-app", FALSE),
                   Inv("build_nix", "js-framework-benchmark", FALSE) >>)

C2_Witness ==
  /\ Finished /\ ProjectAbsent /\ AllSucceeded
  /\ Given("--ghc") /\ Given("--repl")
  /\ Len(Execs) = 6

\* C3: a child that exits non-zero is the last thing the run does: the run is
\* over and nothing is printed or invoked after it.
C3_FailureIsLast ==
  \A i \in 1..Len(trace) :
    IsExit(trace[i]) /\ trace[i].rc # 0 => i = Len(trace) /\ Finished

C3_Witness ==
  /\ Finished /\ ProjectAbsent
  /\ Len(Execs) = 2 /\ Len(Exits) = 2
  /\ Exits[1].rc = 0 /\ Exits[2].rc # 0

\* C4: a run with a project given and --repl invokes exactly configure then
\* repl for that project, both with GHC, with or without --ghc.
C4_ReplForcesNative ==
  ProjectGiven /\ Given("--repl")
    => Performs(<< Inv("configure", Positionals[1], FALSE),
                   Inv("repl", Positionals[1], FALSE) >>)

ReplForcesNative_Named ==
  ProjectNamed /\ Given("--repl")
    => Performs(<< Inv("configure", Positionals[1], FALSE),
                   Inv("repl", Positionals[1], FALSE) >>)

\* C5: a command line carrying both --configure and --repl, or rejected by the
\* parser for any other reason, ends in a non-zero exit with nothing printed
\* and nothing invoked.
C5_UsageErrorBeforeAnyProcess ==
  (Given("--configure") /\ Given("--repl")) \/ ~WellFormed \/ args.outcome = "error"
    => /\ trace = <<>>
       /\ pc \in {"L35", "exited"}
       /\ Finished => status > 0 /\ args.outcome = "error"

C5_Witness ==
  /\ Finished /\ status > 0 /\ trace = <<>>
  /\ Given("--configure") /\ Given("--repl")
  /\ Len(Positionals) = 1 /\ ~Given("--bogus")

\* C6: a run with a project given and --configure invokes configure for that
\* project, with the selected toolchain, and nothing else, whether configure
\* succeeds or fails.
C6_ConfigureOnly ==
  ProjectGiven /\ Given("--configure")
    => /\ IsPrefix(Invocations, << Inv("configure", Positionals[1], Alternate) >>)
       /\ Finished => Len(Invocations) = 1

ConfigureOnly_Named ==
  ProjectNamed /\ Given("--configure")
    => /\ IsPrefix(Invocations, << Inv("configure", Positionals[1], Alternate) >>)
       /\ Finished => Len(Invocations) = 1

\* C7: every PROJECT value given on the command line, the empty string
\* included, is the project of a single-project run: each invocation is for
\* that value, none is a nix-build, and the run makes at least one.
C7_GivenProjectIsSingleRun ==
  ProjectGiven
    => /\ \A i \in 1..Len(Invocations) :
            /\ Invocations[i].action # "build_nix"
            /\ Invocations[i].project = Positionals[1]
       /\ Finished => Len(Invocations) >= 1

GivenProjectIsSingleRun_Named ==
  ProjectNamed
    => /\ \A i \in 1..Len(Invocations) :
            /\ Invocations[i].action # "build_nix"
            /\ Invocations[i].project = Positionals[1]
       /\ Finished => Len(Invocations) >= 1

\* C8: the exit status is 0 exactly when the command line was accepted and
\* every child exited 0; after a failing child it is non-zero.
C8_ExitStatus ==
  Finished
    => /\ status = 0 <=> (WellFormed /\ args.outcome = "ok" /\ AllSucceeded)
       /\ ~AllSucceeded => status > 0

C8_Witness ==
  /\ Finished /\ status > 0
  /\ ProjectGiven /\ Len(Exits) = 2
  /\ Exits[1].rc = 0 /\ Exits[2].rc # 0

\* Project and toolchain a status line names.
LineProject(e) == e.line[2]

LineGhcjs(e) == e.line[4] = "using GHCjs."

\* C9: the trace is a sequence of (status line, invocation, exit) triples: each
\* invocation directly follows one status line naming its project and
\* toolchain, each status line is directly followed by its invocation, and
\* the next status line comes only after the previous child's exit.
C9_StatusLineThenInvocation ==
  /\ \A i \in 1..Len(trace) :
       /\ IsPrint(trace[i]) => i % 3 = 1
       /\ IsExec(trace[i]) =>
            /\ i % 3 = 2
            /\ IsPrint(trace[i - 1])
            /\ LineProject(trace[i - 1]) = InvProject(trace[i])
            /\ LineGhcjs(trace[i - 1]) = InvGhcjs(trace[i])
            /\ trace[i - 1].line[4] \in {"using GHCjs.", "using GHC."}
       /\ IsExit(trace[i]) => i % 3 = 0
  /\ pc = "call" <=> Len(trace) % 3 = 1
  /\ pc = "wait" <=> Len(trace) % 3 = 2

C9_Witness ==
  /\ Finished /\ ProjectGiven /\ Given("--ghc")
  /\ Len(trace) = 6
  /\ trace[6].rc # 0

\* Whether an inner command carries the GHCjs option.
HasGhcjsOption(cmd) == \E k \in 1..Len(cmd) : cmd[k] = " --ghcjs"

\* C10: in every nix-shell invocation the inner command changes into the
\* project of the target attribute, and carries ' --ghcjs' exactly when it is
\* a configure in an environment provisioned with ghcjs true.
C10_InnerCommandAgrees ==
  \A i \in 1..Len(Execs) :
    Program(Execs[i]) = "nix-shell" =>
      /\ InvAction(Execs[i]) \in {"configure", "build", "repl"}
      /\ Execs[i].argv[4] = <<InvProject(Execs[i]), ".env">>
      /\ InnerCommand(Execs[i])[1] = "cd "
      /\ InnerCommand(Execs[i])[2] = InvProject(Execs[i])
      /\ Execs[i].argv[7] \in {<<"true">>, <<"false">>}
      /\ HasGhcjsOption(InnerCommand(Execs[i]))
           <=> (InvAction(Execs[i]) = "configure" /\ InvGhcjs(Execs[i]))

C10_Witness ==
  /\ Finished /\ AllSucceeded
  /\ Len(Execs) = 2
  /\ InvAction(Execs[1]) = "configure" /\ InvGhcjs(Execs[1])
  /\ HasGhcjsOption(InnerCommand(Execs[1]))
  /\ InvAction(Execs[2]) = "build"

====
